---- MODULE Spec2Model ----
(***************************************************************************)
(* Model of deaddev::bitmask (include/deaddev/bitmask.hpp).                *)
(*                                                                         *)
(* An integer of the program is represented by the set of the positions of *)
(* its one-bits (bit 0 is the least significant), so that 8, 16, 32 and 64 *)
(* bit representations are all expressible.  ToBits converts a numeral of  *)
(* the source (0x04) to that representation.                               *)
(*                                                                         *)
(* The program modelled is: one enumeration T, one registration of T       *)
(* (DEADDEV_ENABLE_BITMASK or DEADDEV_ENABLE_BITMASK_EXTERNAL), one object *)
(* `flags` of type bitmask<T>, and a sequence of expressions over it; a    *)
(* second object `copy` can be made as a copy of `flags`.                  *)
(* A construct the compiler must reject takes the program to "ill_formed". *)
(*                                                                         *)
(* Spec is the program from the declaration of T on; SpecOps, SpecFrame    *)
(* and SpecCompare start after the tests' registration and exercise the    *)
(* operators, the operations on two objects, and the comparisons and       *)
(* conversions; SpecExample is main() of the usage example.                *)
(***************************************************************************)
EXTENDS Integers, Sequences, FiniteSets, TLC

VARIABLES
  T,       \* the enumeration: [width, scoped, signed] of its declaration
  reg,     \* the registration macro used and the flag list given to it
  traits,  \* bitmask_operations_check_traits<T>: [enable, all_flags]
  pc,      \* "declared", "registered", "live" (flags exists), "ill_formed",
           \* "no_return" (a call that never returns), "aborted" (a failed
           \* assert), or the line of main() reached in the example
  mask_,   \* flags.mask_
  copy,    \* the object `copy`: [live, mask_]
  last     \* the last expression evaluated and what it returned

vars == <<T, reg, traits, pc, mask_, copy, last>>

-----------------------------------------------------------------------------
(* Bounds of the model *)

\* longest flag list passed to a registration macro
MaxListLen == 3

-----------------------------------------------------------------------------
(* Integers as sets of bit positions *)

\* width of `int`, the type of the literal 1 in calculate_all_flags()
IntBits == 32

\* width of size_t, the type of empty_bitmask_traits::all_flags
SizeBits == 64

\* sizeof(T) * CHAR_BIT for the underlying types considered
Widths == {8, 16, 32, 64}

\* The enumerations considered: simple_bitmask_flag_bits (unscoped, uint16_t)
\* and scoped_bitmask_flag_bits (enum class, uint16_t) of the tests,
\* some_bitmask_flag_bits of the example (enum class, int), and an 8 bit and
\* a 64 bit unscoped enumeration.  Only the example's underlying type, int, is
\* signed.
EnumTypes ==
  {[width |-> 16, scoped |-> FALSE, signed |-> FALSE],
   [width |-> 16, scoped |-> TRUE, signed |-> FALSE],
   [width |-> 32, scoped |-> TRUE, signed |-> TRUE],
   [width |-> 8, scoped |-> FALSE, signed |-> FALSE],
   [width |-> 64, scoped |-> FALSE, signed |-> FALSE]}

ToBits(n) == {i \in 0..15 : (n \div (2 ^ i)) % 2 = 1}

AllOnes(w) == 0..(w - 1)

BitOr(a, b) == a \cup b

BitAnd(a, b) == a \cap b

BitXor(a, b) == (a \ b) \cup (b \ a)

\* conversion of an integer value to an integer type of w bits (modulo 2^w)
Truncate(x, w) == x \cap AllOnes(w)

Min(s) == CHOOSE i \in s : \A j \in s : i <= j

\* x - 1 on a two's complement int
IntMinusOne(x) ==
  IF x = {} THEN AllOnes(IntBits)
  ELSE (x \ {Min(x)}) \cup {i \in 0..IntBits : i < Min(x)}

\* static_cast<T>(int): truncation, or sign extension to a wider type
IntToWidth(x, w) ==
  IF w <= IntBits THEN Truncate(x, w)
  ELSE IF (IntBits - 1) \in x THEN x \cup {i \in 0..(w - 1) : i >= IntBits}
  ELSE x

-----------------------------------------------------------------------------
(* The enumerations of the tests: 0x01, 0x04, 0x08 and their unions *)

OPTION_0_BIT == ToBits(1)
OPTION_1_BIT == ToBits(4)
OPTION_2_BIT == ToBits(8)
OPTIONS_0_1 == BitOr(OPTION_0_BIT, OPTION_1_BIT)
OPTIONS_1_2 == BitOr(OPTION_1_BIT, OPTION_2_BIT)
OPTIONS_0_2 == BitOr(OPTION_0_BIT, OPTION_2_BIT)
OPTIONS_0_1_2 == BitOr(OPTION_0_BIT, BitOr(OPTION_1_BIT, OPTION_2_BIT))

\* the individual flags, as listed in the registrations of the tests
FlagBits == {OPTION_0_BIT, OPTION_1_BIT, OPTION_2_BIT}

\* values of enum_type passed as arguments
EnumArgs == {OPTION_0_BIT, OPTION_1_BIT, OPTIONS_1_2}

\* values of mask_type passed to the explicit constructor: 0 and two values
\* with a bit that is no named flag (0x10, 0x14)
RawArgs == {ToBits(0), ToBits(16), ToBits(20)}

\* bitmask values passed as `other`
MaskArgs == {OPTION_0_BIT, OPTIONS_1_2, ToBits(20)}

FlagLists == UNION {[1..n -> FlagBits] : n \in 0..MaxListLen}

Range(s) == {s[i] : i \in 1..Len(s)}

-----------------------------------------------------------------------------
(* Capability registration *)

\* details::empty_bitmask_traits: the descriptor of an unregistered type
empty_bitmask_traits == [enable |-> FALSE, all_flags |-> AllOnes(SizeBits)]

\* details::bitmask_traits<T, AllFlags>
bitmask_traits(AllFlags) == [enable |-> TRUE, all_flags |-> AllFlags]

\* combine_flags with `=` written for `|=`
combine_flags_assigning(result, value) == value

\* details::combine_flags: result |= static_cast<underlying_type_t<T>>(value)
combine_flags(result, value) == BitOr(result, value)

\* C++17 branch: result{0}; (combine_flags(result, args), ...); left to right
RECURSIVE calculate_all_flags_cpp_17(_)
calculate_all_flags_cpp_17(args) ==
  IF args = <<>> THEN {}
  ELSE combine_flags(calculate_all_flags_cpp_17(SubSeq(args, 1, Len(args) - 1)),
                     args[Len(args)])

\* C++14 branch: arg | calculate_all_flags_cpp_before_17(args...), with the
\* one-argument overload as the end of the recursion
RECURSIVE calculate_all_flags_cpp_before_17(_)
calculate_all_flags_cpp_before_17(args) ==
  IF Len(args) = 1 THEN args[1]
  ELSE BitOr(args[1], calculate_all_flags_cpp_before_17(Tail(args)))

\* the language standards the header supports (__cplusplus)
Standards == {14, 17}

\* calculate_all_flags<T>(Args... args), chosen for a non-empty list
calculate_all_flags(args, std) ==
  IF std < 17 THEN calculate_all_flags_cpp_before_17(args)
  ELSE calculate_all_flags_cpp_17(args)

\* 1 << n on an int.  A shift count of IntBits or more is undefined: inside
\* the constant expression of a template argument a conforming compiler
\* rejects the program; a permissive build folds the shift to 0 (all bits
\* shifted out) or takes the count modulo IntBits as the hardware does.
ShiftOneLeft(n) ==
  IF n < IntBits THEN {[ok |-> TRUE, value |-> {n}]}
  ELSE {[ok |-> FALSE, value |-> {}],
        [ok |-> TRUE, value |-> {}],
        [ok |-> TRUE, value |-> {n % IntBits}]}

\* calculate_all_flags<T>() of the empty list:
\* static_cast<T>((1 << (sizeof(T) * CHAR_BIT)) - 1); the set of its outcomes
calculate_all_flags_empty(w) ==
  {[ok |-> s.ok,
    value |-> IF s.ok THEN IntToWidth(IntMinusOne(s.value), w) ELSE {}]
     : s \in ShiftOneLeft(w)}

\* the template argument of bitmask_traits in both macros
AllFlagsArgument(w, args, std) ==
  IF args = <<>> THEN calculate_all_flags_empty(w)
  ELSE {[ok |-> TRUE, value |-> Truncate(calculate_all_flags(args, std), w)]}

NoArg == {}

NoPrev == [op |-> "none", self |-> {}, arg |-> {}]

\* what the last evaluated expression was and what it returned:
\*   self  the receiver's mask_ before the call, arg the argument's integer,
\*   from  what the receiver was ("flags", "copy", "temp": the previous
\*         result, or "right": flags as the right operand of a free comparison),
\*   kind  "value" (a bitmask by value), "ref" (*this), "bool", "enum_type",
\*         "mask_type", "int" (a built-in operator), "no return" or "none",
\*   ret   the returned mask's integer, retb the returned bool,
\*   prev  the expression before it, where a claim speaks of a sequence
Call(op, form, from, self, arg, kind, ret, retb, prev) ==
  [op |-> op, form |-> form, from |-> from, self |-> self, arg |-> arg,
   kind |-> kind, ret |-> ret, retb |-> retb, prev |-> prev]

NoCall == Call("none", "none", "none", {}, NoArg, "none", {}, FALSE, NoPrev)

\* the object `copy` before its declaration is reached
NoObject == [live |-> FALSE, mask_ |-> {}]

Registration(form, args) ==
  [form |-> form, listed |-> Range(args), len |-> Len(args)]

Register(form, args, std) ==
  /\ pc = "declared"
  /\ reg' = Registration(form, args)
  /\ \E out \in AllFlagsArgument(T.width, args, std) :
       IF out.ok
         THEN /\ traits' = bitmask_traits(out.value)
              /\ pc' = "registered"
         ELSE /\ traits' = traits
              /\ pc' = "ill_formed"
  /\ last' = Call("register", form, "none", {}, NoArg, "none", {}, FALSE, NoPrev)
  /\ UNCHANGED <<T, mask_, copy>>

\* DEADDEV_ENABLE_BITMASK(T, ...): an overload of adl_bitmask_operations_check
DEADDEV_ENABLE_BITMASK ==
  \E args \in FlagLists, std \in Standards : Register("adl", args, std)

\* DEADDEV_ENABLE_BITMASK_EXTERNAL(T, ...): a specialization of
\* bitmask_operations_check_traits<T>
DEADDEV_ENABLE_BITMASK_EXTERNAL ==
  \E args \in FlagLists, std \in Standards : Register("external", args, std)

\* whether the build defines DEADDEV_ENABLE_BITMASKS_FOR_SCOPED_ENUMS; neither
\* the tests nor the example define it
ENABLE_BITMASKS_FOR_SCOPED_ENUMS == FALSE

\* details::is_scoped_enum_v<T>
is_scoped_enum_v == T.scoped

\* details::is_bitmask_v<T>
is_bitmask_v ==
  \/ ENABLE_BITMASKS_FOR_SCOPED_ENUMS /\ is_scoped_enum_v
  \/ traits.enable

\* details::bitmask_all_flags_v<T>
bitmask_all_flags_v == traits.all_flags

-----------------------------------------------------------------------------
(* class bitmask<T> *)

\* a class template bitmask without the enable_if default argument
bitmask_instantiable_always == TRUE

\* template <typename T, typename = enable_if<is_bitmask_v<T>>::type>
\* class bitmask: whether bitmask<T> can be named; every free operator has
\* bitmask<T> in its signature
bitmask_instantiable == is_bitmask_v

\* mask_type: the integers of the representation width
static_cast_mask_type(x) == Truncate(x, T.width)

\* bitmask(enum_type value) : mask_(static_cast<mask_type>(value))
bitmask_enum_type(value) == static_cast_mask_type(value)

\* explicit bitmask(mask_type value) : mask_(value)
bitmask_mask_type(value) == value

\* static bitmask all_flags(): bitmask(bitmask_all_flags_v<enum_type>)
all_flags == bitmask_enum_type(bitmask_all_flags_v)

\* operator~ as the complement cut to the universe, ~mask_ & all_flags
operator_not_masked(m) ==
  bitmask_mask_type(static_cast_mask_type(BitAnd(AllOnes(T.width) \ m, all_flags)))

\* operator~ as the complement of the whole machine word, ~mask_
operator_not_full(m) ==
  bitmask_mask_type(static_cast_mask_type(AllOnes(T.width) \ m))

\* operator~: bitmask(static_cast<mask_type>(mask_ ^ all_flags().mask_))
operator_not(m) == bitmask_mask_type(static_cast_mask_type(BitXor(m, all_flags)))

\* operator^ with `|` written for `^`
operator_xor_as_or(m, other) ==
  [this |-> m, ret |-> bitmask_mask_type(static_cast_mask_type(BitOr(m, other)))]

\* operator^(bitmask) const and operator^(enum_type) const:
\* bitmask(mask_ ^ other); `this` is the receiver's mask_ after the call
operator_xor(m, other) ==
  [this |-> m, ret |-> bitmask_mask_type(static_cast_mask_type(BitXor(m, other)))]

\* operator| written as `mask_ |= other; return *this;`
operator_or_in_place(m, other) ==
  [this |-> static_cast_mask_type(BitOr(m, other)),
   ret |-> bitmask_mask_type(static_cast_mask_type(BitOr(m, other)))]

\* operator|(bitmask) const and operator|(enum_type) const: bitmask(mask_ | other)
operator_or(m, other) ==
  [this |-> m, ret |-> bitmask_mask_type(static_cast_mask_type(BitOr(m, other)))]

\* operator&(bitmask) const and operator&(enum_type) const: bitmask(mask_ & other)
operator_and(m, other) ==
  [this |-> m, ret |-> bitmask_mask_type(static_cast_mask_type(BitAnd(m, other)))]

\* the member operator named op
BinaryOperator(op, m, other) ==
  CASE op = "^" -> operator_xor(m, other)
    [] op = "|" -> operator_or(m, other)
    [] op = "&" -> operator_and(m, other)

\* the free operator^, operator| and operator& on (T left, T right):
\* deaddev::bitmask<T>(left) OP right
free_binary_operator(op, left, right) ==
  BinaryOperator(op, bitmask_enum_type(left), static_cast_mask_type(right)).ret

\* bitmask(const bitmask &) and operator=(const bitmask &), defaulted
copy_bitmask(source) == source

\* operator^=: mask_ ^= other (computed in int, stored in mask_type)
operator_xor_assign(m, other) == static_cast_mask_type(BitXor(m, other))

\* operator|= with `^=` written for `|=`
operator_or_assign_toggling(m, other) == static_cast_mask_type(BitXor(m, other))

\* operator|=: mask_ |= other
operator_or_assign(m, other) == static_cast_mask_type(BitOr(m, other))

\* operator&=: mask_ &= other
operator_and_assign(m, other) == static_cast_mask_type(BitAnd(m, other))

\* is_set testing for any common bit, (mask_ & flag) != 0
is_set_any(m, flag) == BitAnd(m, flag) # {}

\* is_set: (mask_ & flag) == flag, the same expression in both overloads
is_set(m, flag) == BitAnd(m, flag) = flag

\* The implicit conversions between the three types an argument can have:
\* bitmask(enum_type) converts implicitly; bitmask(mask_type) is explicit, and
\* no integer converts implicitly to an enumeration.
ImplicitlyConvertible(from, to) ==
  \/ from = to
  \/ from = "enum_type" /\ to = "bitmask"

\* the parameter types of the overloads of each of ^=, |= and &=
CompoundAssignmentOverloads == {"bitmask", "enum_type"}

ViableOverloads(argType) ==
  {p \in CompoundAssignmentOverloads : ImplicitlyConvertible(argType, p)}

\* `*this OP= x` for an x of type argType: the new mask_, or no viable overload
CompoundAssignment(op, argType, m, x) ==
  IF ViableOverloads(argType) = {} THEN [ok |-> FALSE, mask |-> m]
  ELSE [ok |-> TRUE,
        mask |-> CASE op = "^=" -> operator_xor_assign(m, x)
                   [] op = "|=" -> operator_or_assign(m, x)
                   [] op = "&=" -> operator_and_assign(m, x)]

\* set(enum_type flag): return *this |= flag
set_enum_type(m, flag) == CompoundAssignment("|=", "enum_type", m, flag)

\* set(bitmask other): return *this |= other.mask_
set_bitmask(m, other) == CompoundAssignment("|=", "mask_type", m, other)

\* remove(enum_type flag) written with |= for ^=
remove_enum_type_setting(m, flag) == CompoundAssignment("|=", "enum_type", m, flag)

\* remove(enum_type flag): return *this ^= flag
remove_enum_type(m, flag) == CompoundAssignment("^=", "enum_type", m, flag)

\* remove(bitmask other): return *this ^= other.mask_
remove_bitmask(m, other) == CompoundAssignment("^=", "mask_type", m, other)

\* explicit operator enum_type() const: static_cast<enum_type>(mask_)
operator_enum_type(m) == Truncate(m, T.width)

\* explicit operator mask_type() const: return mask_
operator_mask_type(m) == m

MaxBit(s) == CHOOSE i \in s : \A j \in s : j <= i

\* a < b on two values of mask_type: two's complement when the underlying
\* type is signed
Less(a, b) ==
  IF T.signed /\ (((T.width - 1) \in a) # ((T.width - 1) \in b))
    THEN (T.width - 1) \in a
  ELSE a # b /\ MaxBit(BitXor(a, b)) \in b

ComparisonOperators == {"==", "!=", "<=", ">=", "<", ">"}

\* the member operators ==, !=, <=, >=, <, > on (mask_type mask) and on
\* (bitmask other): mask_ OP mask
MemberComparison(op, m, x) ==
  CASE op = "==" -> m = x
    [] op = "!=" -> m # x
    [] op = "<=" -> Less(m, x) \/ m = x
    [] op = ">=" -> Less(x, m) \/ m = x
    [] op = "<" -> Less(m, x)
    [] op = ">" -> Less(x, m)

\* the operator the free operator named op applies to (right, left)
Delegate(op) ==
  CASE op = "==" -> "=="
    [] op = "!=" -> "!="
    [] op = ">=" -> "<="
    [] op = "<=" -> ">="
    [] op = "<" -> ">"
    [] op = ">" -> "<"

\* the implicit conversion sequence from an argument's type to a parameter's:
\* 0 exact, 1 a standard conversion (an unscoped enumeration to its underlying
\* type), 2 through the converting constructor bitmask(enum_type), 3 none
\* (bitmask(mask_type) and both conversion operators are explicit)
ConversionRank(from, to) ==
  IF from = to THEN 0
  ELSE IF from = "enum_type" /\ to = "mask_type" /\ ~T.scoped THEN 1
  ELSE IF from = "enum_type" /\ to = "bitmask" THEN 2
  ELSE 3

\* whether the build adds the reversed operator== candidates to the overload
\* set of == and != (C++20 as published does, C++14 and C++17 do not)
ReversedCandidates == {FALSE, TRUE}

\* the candidate functions of `a OP x` for a bitmask a and an x of type
\* argType: the two member overloads and, where the build has them, the free
\* operator== templates with their parameters reversed
ComparisonCandidates(op, argType, rev) ==
  {[fn |-> "member", param |-> p, rank |-> ConversionRank(argType, p)] :
     p \in {"mask_type", "bitmask"}}
  \cup (IF rev /\ op \in {"==", "!="}
          THEN {[fn |-> "reversed free", param |-> p,
                 rank |-> ConversionRank(argType, p)] :
                  p \in {"enum_type", "mask_type"}}
          ELSE {})

\* the best viable candidates: the better conversion wins, then the
\* non-template member over the template
SelectComparison(op, argType, rev) ==
  LET viable == {c \in ComparisonCandidates(op, argType, rev) : c.rank < 3}
      Better(c, d) ==
        \/ c.rank < d.rank
        \/ c.rank = d.rank /\ c.fn = "member" /\ d.fn # "member"
  IN  {c \in viable : \A d \in viable : ~Better(d, c)}

RECURSIVE ComparisonExpr(_, _, _, _, _, _)
RECURSIVE FreeComparison(_, _, _, _, _, _)

\* the expression `a OP x`, a a bitmask holding m, x of type argType holding
\* v; seen are the free operators whose bodies are being evaluated
ComparisonExpr(op, argType, m, v, rev, seen) ==
  LET best == SelectComparison(op, argType, rev)
      c == CHOOSE d \in best : TRUE
      r == FreeComparison("==", c.param, v, m, rev, seen)
  IN  IF best = {} THEN [kind |-> "none", value |-> FALSE]
      ELSE IF c.fn = "member"
        THEN [kind |-> "bool",
              value |-> MemberComparison(op, m, static_cast_mask_type(v))]
      ELSE IF op = "!=" /\ r.kind = "bool"
        THEN [kind |-> "bool", value |-> ~r.value]
      ELSE r

\* the free operators (T left, bitmask<T> right) and (underlying_type left,
\* bitmask<T> right): `return right OP' left;` a body entered again while it
\* is being evaluated never returns
FreeComparison(op, leftType, v, m, rev, seen) ==
  IF <<op, leftType>> \in seen THEN [kind |-> "no return", value |-> FALSE]
  ELSE ComparisonExpr(Delegate(op), leftType, m, v, rev,
                      seen \cup {<<op, leftType>>})

\* the raw integers masks are compared with: 0, 0x10 and the top bit of the
\* representation
RawCompareArgs == {ToBits(0), ToBits(16), {T.width - 1}}

CompareArgs(type) ==
  CASE type = "enum_type" -> EnumArgs
    [] type = "mask_type" -> RawCompareArgs
    [] type = "bitmask" -> MaskArgs

Constructors == {"bitmask()", "bitmask(enum_type)", "bitmask(mask_type)"}

\* the previous expression, kept when it constructed `flags`
PrevConstructor ==
  IF last.op \in Constructors
    THEN [op |-> last.op, self |-> {}, arg |-> last.arg]
  ELSE NoPrev

ArgsOf(form) == IF form = "enum_type" THEN EnumArgs ELSE MaskArgs

\* the previous expression, kept when it was `op` applied to `flags`
PrevIf(op) ==
  IF last.op = op THEN [op |-> last.op, self |-> last.self, arg |-> last.arg]
  ELSE NoPrev

-----------------------------------------------------------------------------
(* Expressions of the program over the object `flags` *)

Usable == pc \in {"registered", "live"} /\ is_bitmask_v

\* bitmask flags;  (mask_{} zero-initialized)
DefaultConstruct ==
  /\ Usable
  /\ mask_' = {}
  /\ pc' = "live"
  /\ last' = Call("bitmask()", "none", "flags", mask_, NoArg, "none", {}, FALSE, NoPrev)
  /\ UNCHANGED <<T, reg, traits, copy>>

\* bitmask flags{value}; for an enum_type value
ConstructFromEnum ==
  /\ Usable
  /\ \E value \in EnumArgs :
       /\ mask_' = bitmask_enum_type(value)
       /\ last' = Call("bitmask(enum_type)", "enum_type", "flags", mask_, value,
                       "none", {}, FALSE, NoPrev)
  /\ pc' = "live"
  /\ UNCHANGED <<T, reg, traits, copy>>

\* bitmask flags{value}; for a mask_type value
ConstructFromMaskType ==
  /\ Usable
  /\ \E value \in RawArgs :
       /\ mask_' = bitmask_mask_type(value)
       /\ last' = Call("bitmask(mask_type)", "mask_type", "flags", mask_, value,
                       "none", {}, FALSE, NoPrev)
  /\ pc' = "live"
  /\ UNCHANGED <<T, reg, traits, copy>>

\* flags = <the bitmask the previous expression returned>
CopyAssign ==
  /\ pc = "live"
  /\ last.kind = "value"
  /\ mask_' = last.ret
  /\ last' = Call("operator=", "bitmask", "flags", mask_, last.ret, "ref",
                  last.ret, FALSE, NoPrev)
  /\ UNCHANGED <<T, reg, traits, pc, copy>>

\* bitmask::all_flags()
AllFlags ==
  /\ pc = "live"
  /\ last' = Call("all_flags", "none", "none", {}, NoArg, "value", all_flags,
                  FALSE, NoPrev)
  /\ UNCHANGED <<T, reg, traits, pc, mask_, copy>>

\* ~flags, or ~ applied to the bitmask the previous expression returned
OperatorNot ==
  /\ pc = "live"
  /\ \E from \in {"flags", "temp"} :
       /\ from = "temp" => last.kind = "value"
       /\ LET self == IF from = "flags" THEN mask_ ELSE last.ret
              prev == IF from = "temp" THEN PrevIf("operator~") ELSE NoPrev
          IN  last' = Call("operator~", "bitmask", from, self, NoArg, "value",
                           operator_not(self), FALSE, prev)
  /\ UNCHANGED <<T, reg, traits, pc, mask_, copy>>

\* the free operator~(T flag): ~deaddev::bitmask<T>(flag)
FreeOperatorNot ==
  /\ pc = "live"
  /\ \E flag \in EnumArgs :
       last' = Call("operator~", "enum_type", "temp", bitmask_enum_type(flag),
                    flag, "value", operator_not(bitmask_enum_type(flag)), FALSE,
                    NoPrev)
  /\ UNCHANGED <<T, reg, traits, pc, mask_, copy>>

\* flags.is_set(flag) and flags.is_set(other)
IsSet ==
  /\ pc = "live"
  /\ \E form \in {"enum_type", "bitmask"} : \E x \in ArgsOf(form) :
       LET flag == IF form = "enum_type" THEN static_cast_mask_type(x) ELSE x
       IN  last' = Call("is_set", form, "flags", mask_, x, "bool", {},
                        is_set(mask_, flag), NoPrev)
  /\ UNCHANGED <<T, reg, traits, pc, mask_, copy>>

\* the effect of a member that returns `*this OP= x`: r is the outcome
Mutate(op, form, x, r, prev) ==
  /\ pc = "live"
  /\ IF r.ok
       THEN /\ mask_' = r.mask
            /\ pc' = pc
            /\ last' = Call(op, form, "flags", mask_, x, "ref", r.mask, FALSE, prev)
       ELSE /\ mask_' = mask_
            /\ pc' = "ill_formed"
            /\ last' = Call(op, form, "flags", mask_, x, "none", {}, FALSE, NoPrev)
  /\ UNCHANGED <<T, reg, traits, copy>>

\* flags ^= x, flags |= x, flags &= x, for an enum_type or a bitmask x
CompoundAssign ==
  \E op \in {"^=", "|=", "&="} : \E form \in {"enum_type", "bitmask"} :
    \E x \in ArgsOf(form) :
      Mutate(op, form, x, CompoundAssignment(op, form, mask_, x), NoPrev)

\* flags.set(flag)
SetEnum ==
  \E flag \in EnumArgs :
    Mutate("set", "enum_type", flag, set_enum_type(mask_, flag), PrevIf("remove"))

\* flags.set(other)
SetBitmask ==
  \E other \in MaskArgs :
    Mutate("set", "bitmask", other, set_bitmask(mask_, other), PrevIf("remove"))

\* flags.remove(flag)
RemoveEnum ==
  \E flag \in EnumArgs :
    Mutate("remove", "enum_type", flag, remove_enum_type(mask_, flag), NoPrev)

\* flags.remove(other)
RemoveBitmask ==
  \E other \in MaskArgs :
    Mutate("remove", "bitmask", other, remove_bitmask(mask_, other), NoPrev)

\* flags ^ x, flags | x, flags & x, for an enum_type x or the bitmask `copy`
BinaryOperation ==
  /\ pc = "live"
  /\ \E op \in {"^", "|", "&"} : \E form \in {"enum_type", "bitmask"} :
       \E x \in IF form = "enum_type" THEN EnumArgs
                ELSE IF copy.live THEN {copy.mask_} ELSE {} :
         LET r == BinaryOperator(op, mask_,
                    IF form = "enum_type" THEN static_cast_mask_type(x) ELSE x)
         IN  /\ mask_' = r.this
             /\ last' = Call(op, form, "flags", mask_, x, "value", r.ret, FALSE,
                             NoPrev)
  /\ UNCHANGED <<T, reg, traits, pc, copy>>

\* left ^ right, left | right, left & right on two enum_type values
FreeBinaryOperation ==
  /\ pc = "live"
  /\ \E op \in {"^", "|", "&"} : \E left \in EnumArgs : \E right \in EnumArgs :
       last' = Call(op, "enum_type", "temp", bitmask_enum_type(left), right,
                    "value", free_binary_operator(op, left, right), FALSE, NoPrev)
  /\ UNCHANGED <<T, reg, traits, pc, mask_, copy>>

\* bitmask copy(flags);  or  copy = flags;
CopyConstruct ==
  /\ pc = "live"
  /\ copy' = [live |-> TRUE, mask_ |-> copy_bitmask(mask_)]
  /\ last' = Call("bitmask(const bitmask &)", "bitmask", "copy", copy.mask_, mask_,
                  "none", {}, FALSE, NoPrev)
  /\ UNCHANGED <<T, reg, traits, pc, mask_>>

\* copy ^= x, copy |= x, copy &= x, for an enum_type x
CopyCompoundAssign ==
  /\ pc = "live"
  /\ copy.live
  /\ \E op \in {"^=", "|=", "&="} : \E x \in EnumArgs :
       LET r == CompoundAssignment(op, "enum_type", copy.mask_, x)
       IN  /\ copy' = [live |-> TRUE, mask_ |-> r.mask]
           /\ last' = Call(op, "enum_type", "copy", copy.mask_, x, "ref", r.mask,
                           FALSE, NoPrev)
  /\ UNCHANGED <<T, reg, traits, pc, mask_>>

\* the effect of a comparison whose outcome is r
Compared(op, type, from, x, r) ==
  /\ pc' = IF r.kind = "bool" THEN pc ELSE "no_return"
  /\ last' = Call(op, type, from, mask_, x, r.kind, {}, r.value, PrevConstructor)
  /\ UNCHANGED <<T, reg, traits, mask_, copy>>

\* flags OP x, for a mask_type, an enum_type or a bitmask x
MemberCompare ==
  /\ pc = "live"
  /\ \E op \in ComparisonOperators : \E type \in {"mask_type", "enum_type", "bitmask"} :
       \E x \in CompareArgs(type) : \E rev \in ReversedCandidates :
         Compared(op, type, "flags", x,
                  ComparisonExpr(op, type, mask_, x, rev, {}))

\* x OP flags, for an enum_type or a mask_type x on the left
FreeCompare ==
  /\ pc = "live"
  /\ \E op \in ComparisonOperators : \E type \in {"enum_type", "mask_type"} :
       \E x \in CompareArgs(type) : \E rev \in ReversedCandidates :
         Compared(op, type, "right", x,
                  FreeComparison(op, type, x, mask_, rev, {}))

\* static_cast<enum_type>(flags) and static_cast<mask_type>(flags)
Convert ==
  /\ pc = "live"
  /\ \E to \in {"enum_type", "mask_type"} :
       last' = Call("operator " \o to, "none", "flags", mask_, NoArg, to,
                    IF to = "enum_type" THEN operator_enum_type(mask_)
                    ELSE operator_mask_type(mask_),
                    FALSE, PrevConstructor)
  /\ UNCHANGED <<T, reg, traits, pc, mask_, copy>>

\* `bitmask<T> flags;`, `left | right` and `~left` written for a T that has
\* not been registered: bitmask<T> is rejected, and with it every free
\* operator template, which leaves the built-in operators on the promoted
\* integers of an unscoped enumeration and nothing for a scoped one
UseUnregistered ==
  /\ pc = "declared"
  /\ \E expr \in {"bitmask()", "|", "operator~"} :
       \E left \in EnumArgs : \E right \in EnumArgs :
         IF bitmask_instantiable
           THEN /\ mask_' = {}
                /\ pc' = IF expr = "bitmask()" THEN "live" ELSE pc
                /\ last' =
                     CASE expr = "bitmask()" ->
                            Call(expr, "none", "flags", mask_, NoArg, "none", {},
                                 FALSE, NoPrev)
                       [] expr = "|" ->
                            Call(expr, "enum_type", "temp", bitmask_enum_type(left),
                                 right, "value",
                                 free_binary_operator("|", left, right), FALSE,
                                 NoPrev)
                       [] expr = "operator~" ->
                            Call(expr, "enum_type", "temp", bitmask_enum_type(left),
                                 left, "value",
                                 operator_not(bitmask_enum_type(left)), FALSE,
                                 NoPrev)
         ELSE IF expr # "bitmask()" /\ ~is_scoped_enum_v
           THEN /\ mask_' = mask_
                /\ pc' = pc
                /\ last' =
                     Call("built-in " \o expr, "int", "none", left,
                          IF expr = "|" THEN right ELSE NoArg, "int",
                          IF expr = "|" THEN BitOr(left, right)
                          ELSE AllOnes(IntBits) \ left,
                          FALSE, NoPrev)
         ELSE /\ mask_' = mask_
              /\ pc' = "ill_formed"
              /\ last' = Call("rejected", expr, "none", {}, NoArg, "none", {},
                              FALSE, NoPrev)
  /\ UNCHANGED <<T, reg, traits, copy>>

-----------------------------------------------------------------------------
(* The specification *)

\* T: the enumeration; it is not registered yet, so its descriptor is the
\* default one
Init ==
  /\ T \in EnumTypes
  /\ reg = Registration("none", <<>>)
  /\ traits = empty_bitmask_traits
  /\ pc = "declared"
  /\ mask_ = {}
  /\ copy = NoObject
  /\ last = NoCall

Next ==
  \/ DEADDEV_ENABLE_BITMASK
  \/ DEADDEV_ENABLE_BITMASK_EXTERNAL
  \/ DefaultConstruct
  \/ ConstructFromEnum
  \/ ConstructFromMaskType
  \/ CopyAssign
  \/ AllFlags
  \/ OperatorNot
  \/ FreeOperatorNot
  \/ IsSet
  \/ CompoundAssign
  \/ SetEnum
  \/ SetBitmask
  \/ RemoveEnum
  \/ RemoveBitmask
  \/ UseUnregistered

Spec == Init /\ [][Next]_vars

\* the flag list the operations are exercised under: the tests' list
OpsList == <<OPTION_0_BIT, OPTION_1_BIT, OPTION_2_BIT>>

\* the enumerations the operations are exercised on: the tests' scoped
\* uint16_t enumeration and the example's scoped int enumeration
OpsTypes == {t \in EnumTypes : t.scoped}

\* after DEADDEV_ENABLE_BITMASK(T, OPTION_0_BIT, OPTION_1_BIT, OPTION_2_BIT)
InitOps ==
  /\ T \in OpsTypes
  /\ \E std \in Standards : \E out \in AllFlagsArgument(T.width, OpsList, std) :
       /\ out.ok
       /\ reg = Registration("adl", OpsList)
       /\ traits = bitmask_traits(out.value)
  /\ pc = "registered"
  /\ mask_ = {}
  /\ copy = NoObject
  /\ last = Call("register", "adl", "none", {}, NoArg, "none", {}, FALSE, NoPrev)

\* the expressions over the objects of a registered enumeration
NextOps ==
  \/ DefaultConstruct
  \/ ConstructFromEnum
  \/ ConstructFromMaskType
  \/ CopyAssign
  \/ AllFlags
  \/ OperatorNot
  \/ FreeOperatorNot
  \/ IsSet
  \/ CompoundAssign
  \/ SetEnum
  \/ RemoveEnum
  \/ BinaryOperation
  \/ FreeBinaryOperation
  \/ CopyConstruct
  \/ CopyCompoundAssign

SpecOps == InitOps /\ [][NextOps]_vars

\* the members of two objects of one enumeration: the non-assignment
\* operations, the assignment forms, and the copy
NextFrame ==
  \/ DefaultConstruct
  \/ ConstructFromEnum
  \/ AllFlags
  \/ OperatorNot
  \/ IsSet
  \/ BinaryOperation
  \/ SetEnum
  \/ RemoveEnum
  \/ CopyConstruct
  \/ CopyCompoundAssign
  \/ MemberCompare
  \/ FreeCompare
  \/ Convert

SpecFrame == InitOps /\ [][NextFrame]_vars

\* the enumerations the comparisons are exercised on: the tests' unscoped
\* uint16_t enumeration and the example's scoped int enumeration
CompareTypes == {t \in EnumTypes : (t.width = 16 /\ ~t.scoped) \/ t.signed}

\* after DEADDEV_ENABLE_BITMASK(T, OPTION_0_BIT, OPTION_1_BIT, OPTION_2_BIT)
InitCompare ==
  /\ T \in CompareTypes
  /\ \E std \in Standards : \E out \in AllFlagsArgument(T.width, OpsList, std) :
       /\ out.ok
       /\ reg = Registration("adl", OpsList)
       /\ traits = bitmask_traits(out.value)
  /\ pc = "registered"
  /\ mask_ = {}
  /\ copy = NoObject
  /\ last = Call("register", "adl", "none", {}, NoArg, "none", {}, FALSE, NoPrev)

\* construction, comparison and conversion
NextCompare ==
  \/ DefaultConstruct
  \/ ConstructFromEnum
  \/ ConstructFromMaskType
  \/ MemberCompare
  \/ FreeCompare
  \/ Convert

SpecCompare == InitCompare /\ [][NextCompare]_vars

-----------------------------------------------------------------------------
(* Properties *)

\* the bits of the representation that are outside the all-flags pattern
OutsideBits == AllOnes(T.width) \ all_flags

\* bit i of x XOR y
XorBit(i, x, y) == (i \in x) # (i \in y)

\* C1: the unary NOT of a mask m returns the mask whose integer is
\* m XOR all_flags, bit by bit over the representation width, whatever bits m
\* has (inside or outside the declared flags); ~flags leaves flags as it was;
\* the free ~ on an enum value e returns e XOR all_flags, the result of ~ on
\* the mask built from e.
C1_NotIsXorWithAllFlags ==
  last.op = "operator~" =>
    /\ last.ret \subseteq AllOnes(T.width)
    /\ \A i \in AllOnes(T.width) :
         (i \in last.ret) <=> XorBit(i, last.self, traits.all_flags)
    /\ last.from = "flags" => mask_ = last.self
    /\ last.form = "enum_type" =>
         \A i \in AllOnes(T.width) :
           (i \in last.ret) <=> XorBit(i, last.arg, traits.all_flags)

C1_Witness ==
  /\ last.op = "operator~"
  /\ last.from = "flags"
  /\ reg.len > 0
  /\ ~(last.self \subseteq all_flags)
  /\ BitAnd(last.self, all_flags) # {}

\* C2 as stated: the result of ~m never has a bit outside the all-flags
\* pattern, also when m has such bits (taken where the registration listed
\* its flags, so that the all-flags pattern is the one the list gives).
C2_NotClearsOutsideBits ==
  (last.op = "operator~" /\ reg.len > 0) =>
    BitAnd(last.ret, OutsideBits) = {}

\* C2, amended: outside the all-flags pattern ~m has exactly the bits m has
\* there, so ~m is free of such bits exactly when m is.
C2_NotKeepsOutsideBits ==
  last.op = "operator~" =>
    /\ BitAnd(last.ret, OutsideBits) = BitAnd(last.self, OutsideBits)
    /\ (BitAnd(last.ret, OutsideBits) = {}) <=> (last.self \subseteq all_flags)

C2_Witness ==
  /\ last.op = "operator~"
  /\ reg.len > 0
  /\ BitAnd(last.ret, OutsideBits) # {}
  /\ BitAnd(last.ret, all_flags) # {}

\* C3 as stated: ~(~m) is m restricted to the universe, m & all_flags()
\* (taken where the registration listed its flags).
C3_DoubleNotRestricts ==
  (last.op = "operator~" /\ last.prev.op = "operator~" /\ reg.len > 0) =>
    last.ret = BitAnd(last.prev.self, all_flags)

\* C3, amended: ~(~m) is m itself for every mask m; it is m & all_flags()
\* exactly when m has no bit outside the universe.
C3_DoubleNotIsIdentity ==
  (last.op = "operator~" /\ last.prev.op = "operator~") =>
    /\ last.ret = last.prev.self
    /\ (last.ret = BitAnd(last.prev.self, all_flags))
         <=> (last.prev.self \subseteq all_flags)

C3_Witness ==
  /\ last.op = "operator~"
  /\ last.prev.op = "operator~"
  /\ reg.len > 0
  /\ ~(last.prev.self \subseteq all_flags)

\* C4: with an explicit flag list and a mask m inside the universe, ~m is
\* the set of declared flag bits absent from m: m & ~m is 0 and m | ~m is
\* all_flags(); for the 16 bit enumerations of the tests, scoped or not,
\* registered with 0x01, 0x04, 0x08, ~(0x04 | 0x08) is 0x01.
C4_NotIsComplementInUniverse ==
  (last.op = "operator~" /\ reg.len > 0 /\ last.self \subseteq all_flags) =>
    /\ BitAnd(last.self, last.ret) = {}
    /\ BitOr(last.self, last.ret) = all_flags
    /\ last.ret = (UNION reg.listed) \ last.self
    /\ (T.width = 16 /\ reg.listed = FlagBits /\ last.self = OPTIONS_1_2)
         => last.ret = OPTION_0_BIT

C4_Witness ==
  /\ last.op = "operator~"
  /\ last.from = "flags"
  /\ T.width = 16 /\ T.scoped
  /\ reg.listed = FlagBits
  /\ last.self = OPTIONS_1_2
  /\ last.ret = OPTION_0_BIT

\* C5 as stated: remove(f), for an enum value or a full mask f, leaves self
\* equal to old self XOR f (a set bit of f is cleared, a clear bit of f is
\* set, the other bits stay) and returns self.
C5_RemoveIsXor ==
  last.op = "remove" =>
    /\ \A i \in AllOnes(T.width) :
         (i \in mask_) <=> XorBit(i, last.self, last.arg)
    /\ last.kind = "ref"
    /\ last.ret = mask_

\* C6: remove(f) and then immediately set(f), for a flag f that was set in
\* m or not, leaves m equal to (original m | f).
C6_RemoveThenSetIsUnion ==
  (last.op = "set" /\ last.prev.op = "remove" /\ last.prev.arg = last.arg) =>
    /\ last.kind = "ref"
    /\ \A i \in AllOnes(T.width) :
         (i \in mask_) <=> (i \in last.prev.self \/ i \in last.arg)

C6_Witness ==
  /\ last.op = "set"
  /\ last.prev.op = "remove"
  /\ last.prev.arg = last.arg
  /\ BitAnd(last.prev.self, last.arg) = OPTION_1_BIT
  /\ last.arg = OPTIONS_1_2
  /\ ~(last.prev.self \subseteq all_flags)

\* C7: is_set(f), for an enum value or a full mask f, is true iff every bit
\* of f is in m; for all a and b, is_set(a | b) is true iff is_set(a) and
\* is_set(b) are; is_set leaves m as it was.
C7_IsSetIsContainment ==
  last.op = "is_set" =>
    /\ last.retb <=> (\A i \in last.arg : i \in last.self)
    /\ mask_ = last.self
    /\ \A a, b \in SUBSET last.arg :
         BitOr(a, b) = last.arg =>
           (last.retb <=> (is_set(mask_, a) /\ is_set(mask_, b)))

C7_Witness ==
  /\ last.op = "is_set"
  /\ last.form = "bitmask"
  /\ last.arg = OPTIONS_1_2
  /\ is_set(mask_, OPTION_1_BIT)
  /\ ~is_set(mask_, OPTION_2_BIT)
  /\ ~last.retb

\* C8 as stated: set(f), for an enum value or a full mask f, leaves self
\* equal to old self | f and returns self, after which is_set(f) is true.
C8_SetIsUnion ==
  last.op = "set" =>
    /\ \A i \in AllOnes(T.width) :
         (i \in mask_) <=> (i \in last.self \/ i \in last.arg)
    /\ last.kind = "ref"
    /\ last.ret = mask_
    /\ is_set(mask_, last.arg)

\* C9 as stated: a registration with an empty flag list gives the all-flags
\* value with every bit of the representation width set, for the widths 8,
\* 16, 32 and 64; ~m is then the complement of m over the whole width.
C9_EmptyListIsAllOnes ==
  (pc # "declared" /\ reg.len = 0) =>
    /\ is_bitmask_v
    /\ bitmask_all_flags_v = AllOnes(T.width)
    /\ last.op = "operator~" => last.ret = AllOnes(T.width) \ last.self

\* C10: after a registration with a non-empty flag list, in either form,
\* all_flags() is the bitwise OR of the listed values, whatever their order
\* and repetitions, and it is that value in every later state and at every
\* read.
C10_AllFlagsIsUnionOfList ==
  (pc # "declared" /\ reg.len > 0) =>
    /\ is_bitmask_v
    /\ \A i \in AllOnes(SizeBits) :
         (i \in bitmask_all_flags_v) <=> (\E v \in reg.listed : i \in v)
    /\ last.op = "all_flags" => last.ret = UNION reg.listed

C10_Witness ==
  /\ last.op = "all_flags"
  /\ reg.form = "external"
  /\ Cardinality(reg.listed) = 2
  /\ reg.len > Cardinality(reg.listed)
  /\ mask_ # {}

-----------------------------------------------------------------------------
(* The usage example: main() of example/main.cpp and of the README *)

flag_0_bit == ToBits(1)
flag_1_bit == ToBits(2)
flag_2_bit == ToBits(4)
flag_3_bit == ToBits(8)
flag_4_bit == ToBits(16)
flag_5_bit == ToBits(32)
flag_6_bit == ToBits(64)
flag_7_bit == ToBits(128)

\* the flag list of the example's registration
ExampleList ==
  <<flag_0_bit, flag_1_bit, flag_2_bit, flag_3_bit,
    flag_4_bit, flag_5_bit, flag_6_bit, flag_7_bit>>

\* DEADDEV_ENABLE_BITMASK(some_bitmask_flag_bits, flag_0_bit, ..., flag_7_bit),
\* or the commented alternative with DEADDEV_ENABLE_BITMASK_EXTERNAL
ExampleRegister ==
  \E form \in {"adl", "external"} : \E std \in Standards :
    Register(form, ExampleList, std)

\* some_bitmask_flags flags;
ExampleDeclare ==
  /\ pc = "registered"
  /\ is_bitmask_v
  /\ mask_' = {}
  /\ pc' = "main:45"
  /\ last' = Call("bitmask()", "none", "flags", mask_, NoArg, "none", {}, FALSE, NoPrev)
  /\ UNCHANGED <<T, reg, traits, copy>>

\* the effect of a statement `flags.member(x)` of the example that returns
\* *this: r is the outcome
ExampleMutate(op, x, r, next) ==
  /\ r.ok
  /\ mask_' = r.mask
  /\ pc' = next
  /\ last' = Call(op, "enum_type", "flags", mask_, x, "ref", r.mask, FALSE, NoPrev)
  /\ UNCHANGED <<T, reg, traits, copy>>

\* flags |= flag_1_bit;
ExampleOrAssign ==
  /\ pc = "main:45"
  /\ ExampleMutate("|=", flag_1_bit,
                   CompoundAssignment("|=", "enum_type", mask_, flag_1_bit),
                   "main:46")

\* the effect of a subexpression of the example that returns a bitmask ret
ExampleValue(op, form, from, self, x, ret, next) ==
  /\ pc' = next
  /\ last' = Call(op, form, from, self, x, "value", ret, FALSE, NoPrev)
  /\ UNCHANGED <<T, reg, traits, mask_, copy>>

\* ~flags
ExampleNot ==
  /\ pc = "main:46"
  /\ ExampleValue("operator~", "none", "flags", mask_, NoArg, operator_not(mask_),
                  "main:46 =")

\* flags = <the bitmask the right-hand side returned>;
ExampleAssign ==
  /\ pc \in {"main:46 =", "main:47 ="}
  /\ mask_' = copy_bitmask(last.ret)
  /\ pc' = IF pc = "main:46 =" THEN "main:47" ELSE "main:50"
  /\ last' = Call("operator=", "bitmask", "flags", mask_, last.ret, "ref",
                  last.ret, FALSE, NoPrev)
  /\ UNCHANGED <<T, reg, traits, copy>>

\* flag_5_bit | flag_4_bit
ExampleOrFlags ==
  /\ pc = "main:47"
  /\ ExampleValue("|", "enum_type", "temp", bitmask_enum_type(flag_5_bit),
                  flag_4_bit, free_binary_operator("|", flag_5_bit, flag_4_bit),
                  "main:49")

\* (flag_5_bit | flag_4_bit) | flag_1_bit
ExampleOrFlag ==
  /\ pc = "main:49"
  /\ ExampleValue("|", "enum_type", "temp", last.ret, flag_1_bit,
                  BinaryOperator("|", last.ret,
                                 static_cast_mask_type(flag_1_bit)).ret,
                  "main:47 ^")

\* flags ^ (flag_5_bit | flag_4_bit | flag_1_bit)
ExampleXor ==
  /\ pc = "main:47 ^"
  /\ mask_' = BinaryOperator("^", mask_, last.ret).this
  /\ pc' = "main:47 ="
  /\ last' = Call("^", "bitmask", "flags", mask_, last.ret, "value",
                  BinaryOperator("^", mask_, last.ret).ret, FALSE, NoPrev)
  /\ UNCHANGED <<T, reg, traits, copy>>

\* flags.set(flag_5_bit)
ExampleSet ==
  /\ pc = "main:50"
  /\ ExampleMutate("set", flag_5_bit, set_enum_type(mask_, flag_5_bit), "main:51")

\* .remove(flag_2_bit);
ExampleRemove ==
  /\ pc = "main:51"
  /\ ExampleMutate("remove", flag_2_bit, remove_enum_type(mask_, flag_2_bit),
                   "main:53")

\* the five assert statements: where each starts, the flags of its is_set
\* argument, whether the condition is !is_set, and the statement after it
ExampleAsserts ==
  {[at |-> "main:53", flags |-> <<flag_1_bit>>, negated |-> FALSE,
    next |-> "main:55"],
   [at |-> "main:55", flags |-> <<flag_1_bit, flag_3_bit>>, negated |-> FALSE,
    next |-> "main:58"],
   [at |-> "main:58", flags |-> <<flag_2_bit>>, negated |-> TRUE,
    next |-> "main:60"],
   [at |-> "main:60", flags |-> <<flag_2_bit, flag_4_bit>>, negated |-> TRUE,
    next |-> "main:63"],
   [at |-> "main:63", flags |-> <<flag_0_bit, flag_2_bit>>, negated |-> TRUE,
    next |-> "main:65"]}

\* the argument `flag_a | flag_b` of an assert's is_set
ExampleAssertOperand ==
  \E a \in ExampleAsserts :
    /\ pc = a.at
    /\ Len(a.flags) = 2
    /\ ExampleValue("|", "enum_type", "temp", bitmask_enum_type(a.flags[1]),
                    a.flags[2], free_binary_operator("|", a.flags[1], a.flags[2]),
                    a.at \o " is_set")

\* assert(flags.is_set(x)) and assert(!flags.is_set(x)): a false condition
\* aborts the program
ExampleAssert ==
  \E a \in ExampleAsserts :
    /\ pc = IF Len(a.flags) = 2 THEN a.at \o " is_set" ELSE a.at
    /\ LET x == IF Len(a.flags) = 2 THEN last.ret
                ELSE static_cast_mask_type(a.flags[1])
           b == is_set(mask_, x)
       IN  /\ pc' = IF b # a.negated THEN a.next ELSE "aborted"
           /\ last' = Call("is_set",
                           IF Len(a.flags) = 2 THEN "bitmask" ELSE "enum_type",
                           "flags", mask_, x, "bool", {}, b, NoPrev)
    /\ UNCHANGED <<T, reg, traits, mask_, copy>>

\* the enumeration and main() before the registration is reached
InitExample ==
  /\ T \in EnumTypes
  /\ reg = Registration("none", <<>>)
  /\ traits = empty_bitmask_traits
  /\ pc = "declared"
  /\ mask_ = {}
  /\ copy = NoObject
  /\ last = NoCall

NextExample ==
  \/ ExampleRegister
  \/ ExampleDeclare
  \/ ExampleOrAssign
  \/ ExampleNot
  \/ ExampleAssign
  \/ ExampleOrFlags
  \/ ExampleOrFlag
  \/ ExampleXor
  \/ ExampleSet
  \/ ExampleRemove
  \/ ExampleAssertOperand
  \/ ExampleAssert

SpecExample == InitExample /\ [][NextExample]_vars

\* C13: with the eight flags 0x01..0x80 all listed at registration, after
\* flags (default), flags |= flag_1, flags = ~flags,
\* flags = flags ^ (flag_5 | flag_4 | flag_1), flags.set(flag_5).remove(flag_2),
\* is_set(flag_1) and is_set(flag_1 | flag_3) hold and is_set(flag_2),
\* is_set(flag_2 | flag_4) and is_set(flag_0 | flag_2) do not: no assert fails.
C13_ExampleAssertsHold ==
  /\ pc # "aborted"
  /\ last.op = "is_set" =>
       /\ last.arg = flag_1_bit => last.retb
       /\ last.arg = BitOr(flag_1_bit, flag_3_bit) => last.retb
       /\ last.arg = flag_2_bit => ~last.retb
       /\ last.arg = BitOr(flag_2_bit, flag_4_bit) => ~last.retb
       /\ last.arg = BitOr(flag_0_bit, flag_2_bit) => ~last.retb

\* main() has reached `return 0` past the last assert
C13_Witness ==
  /\ pc = "main:65"
  /\ reg.len = 8
  /\ last.op = "is_set"
  /\ last.arg = BitOr(flag_0_bit, flag_2_bit)
  /\ ~last.retb

-----------------------------------------------------------------------------
(* The binary operators *)

\* one bit of `a OP b`, for the operator or the compound assignment named op
BitOp(op, a, b) ==
  CASE op \in {"^", "^="} -> a # b
    [] op \in {"|", "|="} -> a \/ b
    [] op \in {"&", "&="} -> a /\ b

\* C11: a | b, a & b and a ^ b, of a mask and a mask, of a mask and an
\* enumerator, and of two enumerators, return the mask whose integer is the
\* bitwise OR, AND, XOR of the two integers; a |= b, a &= b and a ^= b store
\* that integer in the receiver and return the receiver; so
\* (B|C)|A = A|B|C, (B|C)^B = C, (B|C)&A = 0 and (B|C)&B = B.
C11_BinaryOperatorsAreBitwise ==
  /\ last.op \in {"^", "|", "&"} =>
       /\ last.kind = "value"
       /\ last.ret \subseteq AllOnes(T.width)
       /\ \A i \in AllOnes(T.width) :
            (i \in last.ret) <=> BitOp(last.op, i \in last.self, i \in last.arg)
  /\ (last.op \in {"^=", "|=", "&="} /\ last.kind = "ref") =>
       /\ last.from = "flags" => mask_ = last.ret
       /\ last.from = "copy" => copy.mask_ = last.ret
       /\ \A i \in AllOnes(T.width) :
            (i \in last.ret) <=> BitOp(last.op, i \in last.self, i \in last.arg)
  /\ (last.self = OPTIONS_1_2 /\ last.arg = OPTION_0_BIT) =>
       /\ last.op = "|" => last.ret = OPTIONS_0_1_2
       /\ last.op = "&" => last.ret = ToBits(0)
  /\ (last.self = OPTIONS_1_2 /\ last.arg = OPTION_1_BIT) =>
       /\ last.op = "^" => last.ret = OPTION_2_BIT
       /\ last.op = "&" => last.ret = OPTION_1_BIT

\* (B|C) ^ B was evaluated with a mask on the left and an enumerator on the right
C11_Witness ==
  /\ last.op = "^"
  /\ last.form = "enum_type"
  /\ last.from = "flags"
  /\ last.self = OPTIONS_1_2
  /\ last.arg = OPTION_1_BIT
  /\ last.ret = OPTION_2_BIT

-----------------------------------------------------------------------------
(* Comparisons *)

RECURSIVE SumOfBits(_)
SumOfBits(x) ==
  IF x = {} THEN 0
  ELSE LET i == MaxBit(x) IN 2 ^ i + SumOfBits(x \ {i})

\* the integer a pattern of mask_type stands for
Value(x) ==
  IF T.signed /\ (T.width - 1) \in x
    THEN (SumOfBits(x \ {T.width - 1}) - 2 ^ (T.width - 2)) - 2 ^ (T.width - 2)
  ELSE SumOfBits(x)

IntegerComparison(op, b, a) ==
  CASE op = "==" -> b = a
    [] op = "!=" -> b # a
    [] op = "<=" -> b <= a
    [] op = ">=" -> b >= a
    [] op = "<" -> b < a
    [] op = ">" -> b > a

Flipped(op) ==
  CASE op = "==" -> "=="
    [] op = "!=" -> "!="
    [] op = "<=" -> ">="
    [] op = ">=" -> "<="
    [] op = "<" -> ">"
    [] op = ">" -> "<"

\* C12: for every mask a and every raw value b (an enumerator or an integer
\* of the underlying type), each of b == a, b != a, b <= a, b >= a, b < a and
\* b > a returns the comparison of the integer b with the integer of a in the
\* written order, which is the member form of a with the direction flipped;
\* in particular b <= a is the negation of the member a < b.
C12_FreeComparisonsCompareIntegers ==
  (last.from = "right" /\ last.op \in ComparisonOperators) =>
    /\ last.kind = "bool"
    /\ last.retb = IntegerComparison(last.op, Value(last.arg), Value(last.self))
    /\ last.retb = MemberComparison(Flipped(last.op), last.self, last.arg)
    /\ last.op = "<=" => last.retb = ~MemberComparison("<", last.self, last.arg)

\* C12 for the calls that return
C12_ReturnedComparisonsCompareIntegers ==
  (last.from = "right" /\ last.op \in ComparisonOperators /\ last.kind = "bool") =>
    /\ last.retb = IntegerComparison(last.op, Value(last.arg), Value(last.self))
    /\ last.retb = MemberComparison(Flipped(last.op), last.self, last.arg)
    /\ last.op = "<=" => last.retb = ~MemberComparison("<", last.self, last.arg)

-----------------------------------------------------------------------------
(* Construction and conversion *)

\* C14: a default-constructed mask equals the integer 0; a mask constructed
\* from an enumerator e or from an integer v holds that integer unchanged,
\* compares equal to e (to v), and its explicit conversion to the enumeration
\* type (to the integer type) returns e (v), named flag or not.
C14_ConstructionKeepsTheInteger ==
  /\ last.op = "bitmask()" => mask_ = ToBits(0)
  /\ last.op \in {"bitmask(enum_type)", "bitmask(mask_type)"} => mask_ = last.arg
  /\ (last.op = "==" /\ last.from = "flags" /\ last.prev.op = "bitmask()"
        /\ last.form = "mask_type" /\ last.arg = ToBits(0)) =>
       last.kind = "bool" /\ last.retb
  /\ (last.op = "==" /\ last.from = "flags" /\ last.arg = last.prev.arg
        /\ <<last.prev.op, last.form>> \in
             {<<"bitmask(enum_type)", "enum_type">>,
              <<"bitmask(mask_type)", "mask_type">>}) =>
       last.kind = "bool" /\ last.retb
  /\ (last.op = "operator enum_type" /\ last.prev.op = "bitmask(enum_type)") =>
       last.ret = last.prev.arg
  /\ (last.op = "operator mask_type" /\ last.prev.op = "bitmask(mask_type)") =>
       last.ret = last.prev.arg

\* C14 for the comparisons that return
C14_ReturnedConstructionKeepsTheInteger ==
  /\ last.op = "bitmask()" => mask_ = ToBits(0)
  /\ last.op \in {"bitmask(enum_type)", "bitmask(mask_type)"} => mask_ = last.arg
  /\ (last.op = "==" /\ last.from = "flags" /\ last.kind = "bool"
        /\ last.prev.op = "bitmask()"
        /\ last.form = "mask_type" /\ last.arg = ToBits(0)) =>
       last.retb
  /\ (last.op = "==" /\ last.from = "flags" /\ last.kind = "bool"
        /\ last.arg = last.prev.arg
        /\ <<last.prev.op, last.form>> \in
             {<<"bitmask(enum_type)", "enum_type">>,
              <<"bitmask(mask_type)", "mask_type">>}) =>
       last.retb
  /\ (last.op = "operator enum_type" /\ last.prev.op = "bitmask(enum_type)") =>
       last.ret = last.prev.arg
  /\ (last.op = "operator mask_type" /\ last.prev.op = "bitmask(mask_type)") =>
       last.ret = last.prev.arg

-----------------------------------------------------------------------------
(* What an operation changes *)

NonAssignmentOperations ==
  {"^", "|", "&", "operator~", "is_set", "all_flags",
   "operator enum_type", "operator mask_type"} \cup ComparisonOperators

AssignmentOperations == {"^=", "|=", "&=", "set", "remove", "operator="}

\* C15: |, &, ^, ~, is_set, the six comparisons, the conversions and
\* all_flags change neither the receiver nor an argument; |=, &=, ^=, set and
\* remove change the receiver only; a copy is independent of the mask it
\* was copied from: changing either leaves the other as it was.
C15_OnlyAssignmentsChangeOnlyTheReceiver ==
  [][/\ last'.op \in NonAssignmentOperations =>
          mask_' = mask_ /\ copy' = copy
     /\ (last'.op \in AssignmentOperations /\ last'.from = "flags") =>
          copy' = copy
     /\ (last'.op \in AssignmentOperations /\ last'.from = "copy") =>
          mask_' = mask_
     /\ last'.op = "bitmask(const bitmask &)" =>
          mask_' = mask_ /\ copy'.mask_ = mask_]_vars

\* flags was changed by set after it was copied, and the copy holds the old value
C15_Witness ==
  /\ copy.live
  /\ last.op = "set"
  /\ last.from = "flags"
  /\ copy.mask_ = last.self
  /\ mask_ # copy.mask_

-----------------------------------------------------------------------------
(* Closure within the universe *)

InUniverse(m) == BitAnd(m, all_flags) = m

\* the bits of m outside the all-flags pattern
OutsideOf(m) == m \ all_flags

ClosedOperations ==
  {"bitmask()", "bitmask(enum_type)", "bitmask(const bitmask &)", "operator=",
   "^", "|", "&", "operator~", "^=", "|=", "&=", "set", "remove"}

\* C17: under a registration with an explicit flag list, when the masks and
\* the operands of a step of |, &, ^, ~, |=, &=, ^=, set or remove (or of a
\* default, enumerator or copy construction) all lie within all_flags(), so
\* do the masks and the result after it: (m & all_flags()) == m; and every
\* bit outside all_flags() in a mask or a result after a step was in a mask
\* or an operand of that step, a raw integer passed to the constructor
\* included.
C17_ClosedWithinUniverse ==
  [][reg.len > 0 =>
       /\ (/\ last'.op \in ClosedOperations
           /\ InUniverse(mask_)
           /\ InUniverse(copy.mask_)
           /\ InUniverse(last'.self)
           /\ InUniverse(last'.arg)) =>
            /\ InUniverse(mask_')
            /\ InUniverse(copy'.mask_)
            /\ InUniverse(last'.ret)
       /\ (OutsideOf(mask_') \cup OutsideOf(copy'.mask_) \cup OutsideOf(last'.ret))
            \subseteq (OutsideOf(mask_) \cup OutsideOf(copy.mask_)
                        \cup OutsideOf(last'.self) \cup OutsideOf(last'.arg))]_vars

\* ~ was applied to a mask of flags inside the universe and returned the rest
\* of the universe
C17_Witness ==
  /\ reg.len > 0
  /\ last.op = "operator~"
  /\ last.from = "flags"
  /\ last.self = OPTIONS_1_2
  /\ InUniverse(mask_)
  /\ copy.live
  /\ InUniverse(copy.mask_)
  /\ last.ret = OPTION_0_BIT

-----------------------------------------------------------------------------
(* Eligibility *)

\* the compiler has rejected the registration macro's expansion
RegistrationRejected == pc = "ill_formed" /\ last.op = "register"

\* C16: is_bitmask_v<T> is true exactly when T has been registered with
\* DEADDEV_ENABLE_BITMASK or DEADDEV_ENABLE_BITMASK_EXTERNAL (the scoped-enum
\* policy being off); an unregistered T resolves to empty_bitmask_traits with
\* enable == false, so no bitmask<T> object exists and no operator of the
\* library has returned for it: the use is rejected when the program is
\* built, never when it runs.
C16_EligibleIffRegistered ==
  /\ ~RegistrationRejected => (is_bitmask_v <=> reg.form \in {"adl", "external"})
  /\ reg.form = "none" =>
       /\ traits = empty_bitmask_traits
       /\ ~traits.enable
       /\ ~is_bitmask_v
  /\ ~is_bitmask_v =>
       /\ pc \in {"declared", "ill_formed"}
       /\ last.kind \notin {"value", "ref", "bool"}
       /\ last.op \in {"none", "register", "rejected", "built-in |",
                      "built-in operator~"}
       /\ last.op = "rejected" => pc = "ill_formed"
       /\ last.op \in {"built-in |", "built-in operator~"} => ~is_scoped_enum_v

\* bitmask<T> was named for an unregistered T and the program was rejected
C16_Witness ==
  /\ reg.form = "none"
  /\ ~is_bitmask_v
  /\ last.op = "rejected"
  /\ last.form = "bitmask()"
  /\ pc = "ill_formed"

====
